---- MODULE Spec2Model ----
(***************************************************************************)
(* Model of homewizard-water-exporter: the poll loop of main.rs (interval, *)
(* fetch, Metrics::update, Metrics::gather, publish under the write lock), *)
(* the /metrics handler reading the shared String under the read lock, the *)
(* HomeWizard client's fetch_data and the metric registry of metrics.rs.   *)
(*                                                                         *)
(* Time is discrete.  The interval timer is kept relative to the clock:    *)
(* lag = now - (deadline of the next tick).  In-process steps of the       *)
(* poller take no time; time passes only while the poller is suspended     *)
(* (timer, device request, write lock).                                    *)
(***************************************************************************)
EXTENDS Integers, Sequences, FiniteSets

VARIABLES
    poll_interval,      \* Config::poll_interval (seconds), fixed at start
    debug_build,        \* TRUE when debug assertions are compiled in
    clients,            \* the HTTP clients that issue requests in this run
    device,             \* what the device can answer in this run
    main_pc,            \* position of main
    registered,         \* the metrics registered with the Registry so far
    pc,                 \* position of the spawned poll task
    lag,                \* now - deadline of the interval's next tick
    fetchElapsed,       \* time the device request in flight has taken
    fetched,            \* the result fetch_data returned, until it is matched
    data,               \* the Reading of this iteration (match arm Ok(data))
    metrics_text,       \* the text returned by gather() in this iteration
    lastLog,            \* the last message the poll task logged
    total_water,        \* Counter
    active_flow,        \* Gauge
    water_offset,       \* Gauge
    wifi_strength,      \* Gauge
    meter_info,         \* GaugeVec: the children, as a set of [ssid, value]
    shared_metrics,     \* the String inside Arc<RwLock<String>>
    rpc,                \* position of each client's metrics_handler
    resp,               \* the last body each client received
    reply,              \* the last HTTP response each client received
    respAge,            \* publishes completed since that body was the slot
    clock,              \* time since the poll task started (saturating)
    firstFetchAt,       \* clock when the first device request was issued
    fetchesThisInstant, \* device requests issued since time last advanced
    renders             \* every text gather() has returned so far

vars == <<poll_interval, debug_build, clients, device, main_pc, registered, pc, lag, fetchElapsed,
          fetched, data,
          metrics_text, lastLog, total_water, active_flow, water_offset,
          wifi_strength, meter_info, shared_metrics, rpc, resp, respAge, reply,
          clock, firstFetchAt, fetchesThisInstant, renders>>

cfgVars == <<poll_interval, debug_build, clients, device>>
mainVars == <<main_pc, registered>>
registryVars == <<total_water, active_flow, water_offset, wifi_strength, meter_info>>
readerVars == <<rpc, resp, respAge, reply>>
timeVars == <<lag, fetchElapsed, clock, fetchesThisInstant>>

------------------------------------------------------------------------------
(* Bounds *)

\* Largest lateness of the timer the model follows.
MaxLag == 2
\* The configured HTTP timeout, in the model's time unit.
HttpTimeout == 2
\* Saturation of the clock since the poll task started.
MaxClock == 2
\* Saturation of the age of a delivered body and of the per-instant counter.
MaxAge == 2

PollIntervals == {0, 1, 2}
Readers == {1, 2}

None == [none |-> TRUE]
\* String::new()
EmptyText == <<>>
\* No text: a local not yet bound, a client that has received no body.
NoText == <<[line |-> "none", name |-> "", label |-> "", value |-> 0]>>

\* No response received yet.
NoReply == [route |-> "none", status |-> 0, body |-> NoText]

Min(a, b) == IF a < b THEN a ELSE b

------------------------------------------------------------------------------
(* Readings: HomeWizardWaterData *)

Ssids == {"Guest", "HomeNet"}

Reading(ssid, strength, total, flow, offset) ==
    [wifi_ssid |-> ssid, wifi_strength |-> strength, total_liter_m3 |-> total,
     active_liter_lpm |-> flow, total_liter_offset_m3 |-> offset]

Readings ==
    { Reading("HomeNet", 1, 1, 1, 1),
      Reading("Guest", 0, 2, 0, -1),
      Reading("HomeNet", 1, -1, 1, 0) }

------------------------------------------------------------------------------
(* homewizard.rs: HomeWizardClient::fetch_data *)

\* The fields HomeWizardWaterData requires.
FieldNames ==
    {"wifi_ssid", "wifi_strength", "total_liter_m3", "active_liter_lpm",
     "total_liter_offset_m3"}

\* A response body: nothing, an empty body, text that is not JSON, or a JSON
\* object with the given fields.
Body(kind, fields) == [kind |-> kind, fields |-> fields]

NoBody == Body("none", None)
EmptyBody == Body("empty", None)
NotJson == Body("text", None)
\* The object of test_fetch_data_missing_fields.
PartialObject == Body("object", [wifi_ssid |-> "HomeNet", wifi_strength |-> 1])

\* What the device (or the network) answers to one GET.
Response(kind, status, body) == [kind |-> kind, status |-> status, body |-> body]

DeviceResponses ==
    { Response("refused", 0, NoBody),
      Response("http", 500, NotJson),
      Response("http", 404, Body("object", CHOOSE d \in Readings : d.total_liter_m3 = 1)),
      Response("http", 200, EmptyBody),
      Response("http", 200, NotJson),
      Response("http", 200, PartialObject) }
    \cup { Response("http", 200, Body("object", d)) : d \in Readings }

TimeoutResponse == Response("timeout", 0, NoBody)

is_success(status) == status >= 200 /\ status <= 299

Ok(d) == [ok |-> TRUE, data |-> d, err |-> "", status |-> 0]
Err(kind, status) == [ok |-> FALSE, data |-> None, err |-> kind, status |-> status]

\* from_json, were a missing field to take its default.
from_json_with_defaults(body) ==
    IF body.kind # "object" THEN Err("RequestFailed", 0)
    ELSE LET f == body.fields
             num(n) == IF n \in DOMAIN f THEN f[n] ELSE 0
         IN Ok(Reading(IF "wifi_ssid" \in DOMAIN f THEN f.wifi_ssid ELSE "",
                       num("wifi_strength"), num("total_liter_m3"),
                       num("active_liter_lpm"), num("total_liter_offset_m3")))

\* response.json::<HomeWizardWaterData>(): the derived Deserialize; every
\* field is required, a reqwest::Error otherwise.
from_json(body) ==
    IF body.kind # "object" THEN Err("RequestFailed", 0)
    ELSE IF ~(FieldNames \subseteq DOMAIN body.fields) THEN Err("RequestFailed", 0)
    ELSE LET f == body.fields
         IN Ok(Reading(f.wifi_ssid, f.wifi_strength, f.total_liter_m3,
                       f.active_liter_lpm, f.total_liter_offset_m3))

\* fetch_data, were the status not checked.
fetch_data_ignoring_status(r) ==
    IF r.kind # "http" THEN Err("RequestFailed", 0)
    ELSE from_json(r.body)

\* send().await? ; status check ; json().await?
fetch_data(r) ==
    IF r.kind # "http" THEN Err("RequestFailed", 0)
    ELSE IF ~is_success(r.status) THEN Err("ParseError", r.status)
    ELSE from_json(r.body)

------------------------------------------------------------------------------
(* metrics.rs: the registry and its text exposition *)

Registry ==
    [total_water |-> total_water, active_flow |-> active_flow,
     water_offset |-> water_offset, wifi_strength |-> wifi_strength,
     meter_info |-> meter_info]

Line(kind, name, label, value) ==
    [line |-> kind, name |-> name, label |-> label, value |-> value]

Sample(name, label, value) == Line("sample", name, label, value)

\* A family with no metric is left out of the output.
Family(name, kind, samples) ==
    IF samples = <<>> THEN <<>>
    ELSE <<Line("help", name, "", 0), Line(kind, name, "", 0)>> \o samples

\* Children of the GaugeVec, in label order.
SsidOrder == <<"Guest", "HomeNet">>

RECURSIVE InfoSamples(_, _)
InfoSamples(children, i) ==
    IF i > Len(SsidOrder) THEN <<>>
    ELSE LET here == {c \in children : c.ssid = SsidOrder[i]}
         IN  (IF here = {} THEN <<>>
              ELSE <<Sample("homewizard_water_meter_info", SsidOrder[i],
                            (CHOOSE c \in here : TRUE).value)>>)
             \o InfoSamples(children, i + 1)

\* Registry::gather sorts the families by name; TextEncoder writes them.
Render(m) ==
    Family("homewizard_water_active_flow_lpm", "gauge",
           <<Sample("homewizard_water_active_flow_lpm", "", m.active_flow)>>)
    \o Family("homewizard_water_meter_info", "gauge", InfoSamples(m.meter_info, 1))
    \o Family("homewizard_water_offset_m3", "gauge",
              <<Sample("homewizard_water_offset_m3", "", m.water_offset)>>)
    \o Family("homewizard_water_total_m3", "counter",
              <<Sample("homewizard_water_total_m3", "", m.total_water)>>)
    \o Family("homewizard_water_wifi_strength_percent", "gauge",
              <<Sample("homewizard_water_wifi_strength_percent", "", m.wifi_strength)>>)

\* Counter::inc_by checks v >= 0 with a debug assertion.
IncByPanics(v) == debug_build /\ v < 0

------------------------------------------------------------------------------
(* main.rs: state when main starts; the slot is String::new() (l.41)          *)

InitWith(intervals, builds, clientSets, devices) ==
    /\ poll_interval \in intervals
    /\ debug_build \in builds
    /\ clients \in clientSets
    /\ device \in devices
    /\ main_pc = "metrics_new"
    /\ registered = <<>>
    /\ pc = "unspawned"
    /\ lag = 0
    /\ fetchElapsed = 0
    /\ fetched = None
    /\ data = None
    /\ metrics_text = NoText
    /\ lastLog = "info: starting"
    /\ total_water = 0
    /\ active_flow = 0
    /\ water_offset = 0
    /\ wifi_strength = 0
    /\ meter_info = {}
    /\ shared_metrics = EmptyText
    /\ rpc = [r \in Readers |-> "idle"]
    /\ resp = [r \in Readers |-> NoText]
    /\ respAge = [r \in Readers |-> 0]
    /\ reply = [r \in Readers |-> NoReply]
    /\ clock = 0
    /\ firstFetchAt = -1
    /\ fetchesThisInstant = 0
    /\ renders = {}

\* The device of Spec: it refuses, answers 500, or answers a Reading.
PollerDevice ==
    {r \in DeviceResponses : r.kind = "refused" \/ r.status = 500 \/ fetch_data(r).ok}

Init == InitWith(PollIntervals, BOOLEAN, {{1}}, {PollerDevice})

------------------------------------------------------------------------------
(* tokio::sync::RwLock<String>: a fair lock, a waiting writer holds back     *)
(* later readers, a release hands the lock to those waiting                 *)

\* WriterHolds, were the write guard taken before gather().
WriterHoldsFromGather ==
    pc \in {"gather", "write", "write_locked", "assigning", "assigned"}

WriterHolds == pc \in {"write_locked", "assigning", "assigned"}
WriterWaits == pc = "write_wait"
ReadersHolding == {r \in Readers : rpc[r] = "read_locked"}

\* ReadGranted, were read() not to wait for the writer.
ReadGrantedDespiteWriter == TRUE

\* read(): granted at once unless a writer holds the lock or waits for it.
\* ReadGranted, were the lock to prefer readers: read() waits for a writer
\* that holds the lock, not for one that waits.
ReadGrantedWhileWriterWaits == ~WriterHolds

\* ReadGranted, were the slot behind a Mutex.
ReadGrantedExclusive == ~(WriterHolds \/ WriterWaits) /\ ReadersHolding = {}

ReadGranted == ~(WriterHolds \/ WriterWaits)

\* write(): granted at once unless a reader holds the lock.
WriteGranted == ReadersHolding = {}

------------------------------------------------------------------------------
(* main.rs: main, from Metrics::new to axum::serve *)

\* The metrics of Metrics::new, in registration order.
MetricNames ==
    <<"homewizard_water_total_m3", "homewizard_water_active_flow_lpm",
      "homewizard_water_offset_m3", "homewizard_water_wifi_strength_percent",
      "homewizard_water_meter_info">>

\* What a step of main leaves alone, besides main_pc, registered and pc.
MainFrame ==
    UNCHANGED <<cfgVars, timeVars, fetched, data, metrics_text, lastLog, registryVars,
                shared_metrics, readerVars, firstFetchAt, renders>>

\* let metrics = Arc::new(Metrics::new()?): every with_opts and register
\* returned Ok.
MetricsNewOk ==
    /\ main_pc = "metrics_new"
    /\ registered' = MetricNames
    /\ main_pc' = "client_new"
    /\ UNCHANGED pc
    /\ MainFrame

\* MetricsNewErr, were the error dropped and main to go on.
MetricsNewErrIgnored(k) ==
    /\ main_pc = "metrics_new"
    /\ k \in 1..Len(MetricNames)
    /\ registered' = SubSeq(MetricNames, 1, k - 1)
    /\ main_pc' = "client_new"
    /\ UNCHANGED pc
    /\ MainFrame

\* Metrics::new()?: the k-th with_opts or register returned Err; main returns
\* the error and the process exits.
MetricsNewErr(k) ==
    /\ main_pc = "metrics_new"
    /\ k \in 1..Len(MetricNames)
    /\ registered' = SubSeq(MetricNames, 1, k - 1)
    /\ main_pc' = "exited"
    /\ UNCHANGED pc
    /\ MainFrame

\* let client = HomeWizardClient::new(..)?
ClientNewOk ==
    /\ main_pc = "client_new"
    /\ main_pc' = "spawn"
    /\ UNCHANGED <<registered, pc>>
    /\ MainFrame

\* HomeWizardClient::new(..)?: the builder returned Err.
ClientNewErr ==
    /\ main_pc = "client_new"
    /\ main_pc' = "exited"
    /\ UNCHANGED <<registered, pc>>
    /\ MainFrame

\* tokio::spawn(async move { .. }): the poll task starts.
SpawnPoller ==
    /\ main_pc = "spawn"
    /\ main_pc' = "bind"
    /\ pc' = "interval"
    /\ UNCHANGED registered
    /\ MainFrame

\* let listener = TcpListener::bind(&addr).await?; axum::serve(listener, app)
BindOk ==
    /\ main_pc = "bind"
    /\ main_pc' = "serving"
    /\ UNCHANGED <<registered, pc>>
    /\ MainFrame

\* TcpListener::bind(&addr).await?: Err; main returns, the runtime is dropped
\* and the poll task with it.
BindErr ==
    /\ main_pc = "bind"
    /\ main_pc' = "exited"
    /\ pc' = "cancelled"
    /\ UNCHANGED registered
    /\ MainFrame

\* The listener is bound and axum serves the router.
Serving == main_pc = "serving"

------------------------------------------------------------------------------
(* main.rs: the spawned poll task *)

\* Leaving the loop body: the locals of the iteration go out of scope.
EndIteration ==
    /\ pc' = "tick"
    /\ fetched' = None
    /\ data' = None
    /\ metrics_text' = NoText

\* interval(poll_interval): panics when the period is zero; the first tick
\* is due at once.
IntervalNew ==
    /\ pc = "interval"
    /\ pc' = IF poll_interval = 0 THEN "panicked" ELSE "first_tick"
    /\ lag' = 0
    /\ UNCHANGED <<cfgVars, mainVars, fetchElapsed, fetched, data, metrics_text, lastLog, registryVars,
                   shared_metrics, readerVars, clock, firstFetchAt,
                   fetchesThisInstant, renders>>

\* Interval::tick: completes once the deadline is reached; the next deadline
\* is the previous one plus the period (MissedTickBehavior::Burst, the default).
TickReady == lag >= 0
LagAfterTick == lag - poll_interval

\* interval.tick().await before the loop.
FirstTick ==
    /\ pc = "first_tick"
    /\ TickReady
    /\ lag' = LagAfterTick
    /\ pc' = "tick"
    /\ UNCHANGED <<cfgVars, mainVars, fetchElapsed, fetched, data, metrics_text, lastLog, registryVars,
                   shared_metrics, readerVars, clock, firstFetchAt,
                   fetchesThisInstant, renders>>

\* LoopTick, were every tick that comes due to send a request of its own.
LoopTickStacking ==
    /\ pc \in {"tick", "fetch"}
    /\ TickReady
    /\ lag' = LagAfterTick
    /\ pc' = "fetch"
    /\ fetchElapsed' = 0
    /\ firstFetchAt' = IF firstFetchAt = -1 THEN clock ELSE firstFetchAt
    /\ fetchesThisInstant' = Min(fetchesThisInstant + 1, MaxAge)
    /\ UNCHANGED <<cfgVars, mainVars, fetched, data, metrics_text, lastLog, registryVars,
                   shared_metrics, readerVars, clock, renders>>

\* interval.tick().await at the top of the loop, then the request is sent.
LoopTick ==
    /\ pc = "tick"
    /\ TickReady
    /\ lag' = LagAfterTick
    /\ pc' = "fetch"
    /\ fetchElapsed' = 0
    /\ firstFetchAt' = IF firstFetchAt = -1 THEN clock ELSE firstFetchAt
    /\ fetchesThisInstant' = Min(fetchesThisInstant + 1, MaxAge)
    /\ UNCHANGED <<cfgVars, mainVars, fetched, data, metrics_text, lastLog, registryVars,
                   shared_metrics, readerVars, clock, renders>>

\* Answers, were no timeout set on the client.
AnswersWithoutTimeout == device

\* What can answer the request now: a response before the timeout, the
\* timeout once it is reached.
Answers == IF fetchElapsed < HttpTimeout THEN device ELSE {TimeoutResponse}

\* client.fetch_data().await returns: the request was answered, refused or
\* timed out, and fetch_data made its Result of it.
FetchReturn(r) ==
    /\ pc = "fetch"
    /\ r \in Answers
    /\ fetched' = [resp |-> r, result |-> fetch_data(r)]
    /\ pc' = "match"
    /\ UNCHANGED <<cfgVars, mainVars, timeVars, data, metrics_text, lastLog,
                   registryVars, shared_metrics, readerVars, firstFetchAt, renders>>

\* match .. { Ok(data) => info!(..) ...
FetchOk ==
    /\ pc = "match"
    /\ fetched.result.ok
    /\ data' = fetched.result.data
    /\ fetched' = None
    /\ lastLog' = "info: fetched"
    /\ pc' = "upd_reset"
    /\ UNCHANGED <<cfgVars, mainVars, timeVars, metrics_text, registryVars, shared_metrics,
                   readerVars, firstFetchAt, renders>>

\* FetchErr, were a failed fetch to clear the slot.
FetchErrClearsSlot ==
    /\ pc = "match"
    /\ ~fetched.result.ok
    /\ lastLog' = "warn: fetch failed"
    /\ shared_metrics' = EmptyText
    /\ EndIteration
    /\ UNCHANGED <<cfgVars, mainVars, timeVars, registryVars, readerVars, firstFetchAt, renders>>

\* FetchErr, were the request sent again at once.
FetchErrRetries ==
    /\ pc = "match"
    /\ ~fetched.result.ok
    /\ lastLog' = "warn: fetch failed"
    /\ fetched' = None
    /\ fetchElapsed' = 0
    /\ pc' = "fetch"
    /\ UNCHANGED <<cfgVars, mainVars, lag, clock, fetchesThisInstant, data, metrics_text,
                   registryVars, shared_metrics, readerVars, firstFetchAt, renders>>

\* ... Err(e) => warn!(..) }
FetchErr ==
    /\ pc = "match"
    /\ ~fetched.result.ok
    /\ lastLog' = "warn: fetch failed"
    /\ EndIteration
    /\ UNCHANGED <<cfgVars, mainVars, timeVars, registryVars, shared_metrics, readerVars,
                   firstFetchAt, renders>>

------------------------------------------------------------------------------
(* metrics.rs: Metrics::update, statement by statement *)

\* What a statement of update leaves alone, besides the registry.
UpdateFrame ==
    UNCHANGED <<cfgVars, mainVars, timeVars, fetched, data, metrics_text, lastLog, shared_metrics,
                readerVars, firstFetchAt, renders>>

\* UpdReset, were the counter not reset.
UpdResetSkipped ==
    /\ pc = "upd_reset"
    /\ pc' = "upd_inc"
    /\ UNCHANGED registryVars
    /\ UpdateFrame

\* self.total_water.reset()
UpdReset ==
    /\ pc = "upd_reset"
    /\ total_water' = 0
    /\ pc' = "upd_inc"
    /\ UNCHANGED <<active_flow, water_offset, wifi_strength, meter_info>>
    /\ UpdateFrame

\* self.total_water.inc_by(data.total_liter_m3)
UpdIncBy ==
    /\ pc = "upd_inc"
    /\ IF IncByPanics(data.total_liter_m3)
       THEN /\ pc' = "panicked"
            /\ UNCHANGED total_water
       ELSE /\ pc' = "upd_flow"
            /\ total_water' = total_water + data.total_liter_m3
    /\ UNCHANGED <<active_flow, water_offset, wifi_strength, meter_info>>
    /\ UpdateFrame

\* UpdFlow, were the gauge added to.
UpdFlowAdds ==
    /\ pc = "upd_flow"
    /\ active_flow' = active_flow + data.active_liter_lpm
    /\ pc' = "upd_offset"
    /\ UNCHANGED <<total_water, water_offset, wifi_strength, meter_info>>
    /\ UpdateFrame

\* self.active_flow.set(data.active_liter_lpm)
UpdFlow ==
    /\ pc = "upd_flow"
    /\ active_flow' = data.active_liter_lpm
    /\ pc' = "upd_offset"
    /\ UNCHANGED <<total_water, water_offset, wifi_strength, meter_info>>
    /\ UpdateFrame

\* UpdOffset, were the offset gauge set from the total.
UpdOffsetFromTotal ==
    /\ pc = "upd_offset"
    /\ water_offset' = data.total_liter_m3
    /\ pc' = "upd_wifi"
    /\ UNCHANGED <<total_water, active_flow, wifi_strength, meter_info>>
    /\ UpdateFrame

\* self.water_offset.set(data.total_liter_offset_m3)
UpdOffset ==
    /\ pc = "upd_offset"
    /\ water_offset' = data.total_liter_offset_m3
    /\ pc' = "upd_wifi"
    /\ UNCHANGED <<total_water, active_flow, wifi_strength, meter_info>>
    /\ UpdateFrame

\* self.wifi_strength.set(data.wifi_strength)
UpdWifi ==
    /\ pc = "upd_wifi"
    /\ wifi_strength' = data.wifi_strength
    /\ pc' = "upd_info_reset"
    /\ UNCHANGED <<total_water, active_flow, water_offset, meter_info>>
    /\ UpdateFrame

\* UpdInfoReset, were the children of the GaugeVec kept.
UpdInfoResetSkipped ==
    /\ pc = "upd_info_reset"
    /\ pc' = "upd_info_set"
    /\ UNCHANGED registryVars
    /\ UpdateFrame

\* self.meter_info.reset()
UpdInfoReset ==
    /\ pc = "upd_info_reset"
    /\ meter_info' = {}
    /\ pc' = "upd_info_set"
    /\ UNCHANGED <<total_water, active_flow, water_offset, wifi_strength>>
    /\ UpdateFrame

\* update returns Ok(()) on every path that returns.
UpdateResult == "Ok"

\* self.meter_info.with_label_values(&[&data.wifi_ssid]).set(1.0); Ok(())
\* and, in main, if let Err(e) = poll_metrics.update(&data) { error!; continue }
UpdInfoSet ==
    /\ pc = "upd_info_set"
    /\ meter_info' = {c \in meter_info : c.ssid # data.wifi_ssid}
                     \cup {[ssid |-> data.wifi_ssid, value |-> 1]}
    /\ UNCHANGED <<total_water, active_flow, water_offset, wifi_strength>>
    /\ IF UpdateResult = "Ok"
       THEN /\ pc' = "gather"
            /\ UNCHANGED <<fetched, data, metrics_text, lastLog>>
       ELSE /\ lastLog' = "error: update failed"
            /\ EndIteration
    /\ UNCHANGED <<cfgVars, mainVars, timeVars, shared_metrics, readerVars, firstFetchAt,
                   renders>>

------------------------------------------------------------------------------
(* metrics.rs: Metrics::gather, and the publish of main.rs *)

\* match poll_metrics.gather() { Ok(metrics_text) => ...
GatherOk ==
    /\ pc = "gather"
    /\ metrics_text' = Render(Registry)
    /\ renders' = renders \cup {Render(Registry)}
    /\ pc' = "write"
    /\ UNCHANGED <<cfgVars, mainVars, timeVars, fetched, data, lastLog, registryVars, shared_metrics,
                   readerVars, firstFetchAt>>

\* GatherErr, were the slot emptied when the render fails.
GatherErrClearsSlot ==
    /\ pc = "gather"
    /\ lastLog' = "error: gather failed"
    /\ shared_metrics' = EmptyText
    /\ EndIteration
    /\ UNCHANGED <<cfgVars, mainVars, timeVars, registryVars, readerVars,
                   firstFetchAt, renders>>

\* ... Err(e) => error!(..) }: encode(..)? or from_utf8(..)? returned an error.
GatherErr ==
    /\ pc = "gather"
    /\ lastLog' = "error: gather failed"
    /\ EndIteration
    /\ UNCHANGED <<cfgVars, mainVars, timeVars, registryVars, shared_metrics, readerVars,
                   firstFetchAt, renders>>

\* poll_shared_metrics.write().await
WriteRequest ==
    /\ pc = "write"
    /\ pc' = IF WriteGranted THEN "write_locked" ELSE "write_wait"
    /\ UNCHANGED <<cfgVars, mainVars, timeVars, fetched, data, metrics_text, lastLog, registryVars,
                   shared_metrics, readerVars, firstFetchAt, renders>>

\* The String while *metrics_guard = metrics_text is under way: the new value
\* has replaced the front of the old one.
Torn(old, new) ==
    LET half == Len(new) \div 2
    IN  SubSeq(new, 1, half) \o SubSeq(old, half + 1, Len(old))

\* *metrics_guard = metrics_text, begun.
AssignBegin ==
    /\ pc = "write_locked"
    /\ shared_metrics' = Torn(shared_metrics, metrics_text)
    /\ pc' = "assigning"
    /\ UNCHANGED <<cfgVars, mainVars, timeVars, fetched, data, metrics_text, lastLog, registryVars,
                   readerVars, firstFetchAt, renders>>

\* A body is as old as the number of publishes completed since it was the
\* slot's value; a body equal to the slot's value is current.
AgeAfterPublish(r, text) ==
    IF resp[r] = text \/ resp[r] = NoText THEN 0 ELSE Min(respAge[r] + 1, MaxAge)

\* *metrics_guard = metrics_text, completed.
AssignEnd ==
    /\ pc = "assigning"
    /\ shared_metrics' = metrics_text
    /\ respAge' = [r \in Readers |-> AgeAfterPublish(r, metrics_text)]
    /\ pc' = "assigned"
    /\ UNCHANGED <<cfgVars, mainVars, timeVars, fetched, data, metrics_text, lastLog, registryVars,
                   rpc, resp, reply, firstFetchAt, renders>>

\* WriteRelease, were the text written once more before the loop starts
\* over.
WriteReleaseWritesAgain ==
    /\ pc = "assigned"
    /\ pc' = "write_locked"
    /\ UNCHANGED <<cfgVars, mainVars, timeVars, fetched, data, metrics_text, lastLog,
                   registryVars, shared_metrics, readerVars, firstFetchAt, renders>>

\* WriteRelease, were the period counted from the end of the iteration.
WriteReleaseRestartsTimer ==
    /\ pc = "assigned"
    /\ rpc' = [r \in Readers |-> IF rpc[r] = "read_wait" THEN "read_locked" ELSE rpc[r]]
    /\ lag' = 0 - poll_interval
    /\ EndIteration
    /\ UNCHANGED <<cfgVars, mainVars, fetchElapsed, clock, fetchesThisInstant, lastLog,
                   registryVars, shared_metrics, resp, respAge, reply, firstFetchAt, renders>>

\* The guard is dropped at the end of the match arm: waiting readers get the
\* lock, and the loop starts over.
WriteRelease ==
    /\ pc = "assigned"
    /\ rpc' = [r \in Readers |-> IF rpc[r] = "read_wait" THEN "read_locked" ELSE rpc[r]]
    /\ EndIteration
    /\ UNCHANGED <<cfgVars, mainVars, timeVars, lastLog, registryVars, shared_metrics,
                   resp, respAge, reply, firstFetchAt, renders>>

------------------------------------------------------------------------------
(* main.rs: metrics_handler *)

\* let metrics_guard = metrics.read().await
MetricsRequest(r) ==
    /\ Serving
    /\ r \in clients
    /\ rpc[r] = "idle"
    /\ rpc' = [rpc EXCEPT ![r] = IF ReadGranted THEN "read_locked" ELSE "read_wait"]
    /\ UNCHANGED <<cfgVars, mainVars, timeVars, pc, fetched, data, metrics_text, lastLog, registryVars,
                   shared_metrics, resp, respAge, reply, firstFetchAt, renders>>

\* HandlerBody, were the handler to answer from the body it returned before.
HandlerBodyCached(r) == IF resp[r] # NoText THEN resp[r] ELSE shared_metrics

\* HandlerBody, were the handler to render the registry itself.
HandlerBodyLive(r) == Render(Registry)

\* HandlerBody, were the handler given the String the slot was created with.
HandlerBodyInitial(r) == EmptyText

\* metrics_guard.clone()
HandlerBody(r) == shared_metrics

\* The age of the body the handler returns.
BodyAge(r, body) ==
    IF body = shared_metrics THEN 0
    ELSE IF body = resp[r] THEN respAge[r]
    ELSE MaxAge

\* A handler returning a String or a &'static str answers with that body and
\* status 200 OK (axum's IntoResponse).
Reply(route, status, body) == [route |-> route, status |-> status, body |-> body]

\* MetricsStatus, were an empty slot answered with 503.
MetricsStatusUnavailable(body) == IF body = EmptyText THEN 503 ELSE 200

\* The status of the response made of the String metrics_handler returns.
MetricsStatus(body) == 200

\* MetricsRespond, were the handler to take the String out of the slot.
MetricsRespondTakes(r) ==
    /\ rpc[r] = "read_locked"
    /\ resp' = [resp EXCEPT ![r] = HandlerBody(r)]
    /\ reply' = [reply EXCEPT ![r] =
                    Reply("/metrics", MetricsStatus(HandlerBody(r)), HandlerBody(r))]
    /\ respAge' = [respAge EXCEPT ![r] = BodyAge(r, HandlerBody(r))]
    /\ rpc' = [rpc EXCEPT ![r] = "idle"]
    /\ shared_metrics' = EmptyText
    /\ pc' = IF WriterWaits /\ ReadersHolding = {r} THEN "write_locked" ELSE pc
    /\ UNCHANGED <<cfgVars, mainVars, timeVars, fetched, data, metrics_text, lastLog, registryVars,
                   firstFetchAt, renders>>

\* The handler returns the clone; the guard is dropped, and a waiting writer
\* gets the lock once no reader holds it.
MetricsRespond(r) ==
    /\ rpc[r] = "read_locked"
    /\ resp' = [resp EXCEPT ![r] = HandlerBody(r)]
    /\ reply' = [reply EXCEPT ![r] =
                    Reply("/metrics", MetricsStatus(HandlerBody(r)), HandlerBody(r))]
    /\ respAge' = [respAge EXCEPT ![r] = BodyAge(r, HandlerBody(r))]
    /\ rpc' = [rpc EXCEPT ![r] = "idle"]
    /\ pc' = IF WriterWaits /\ ReadersHolding = {r} THEN "write_locked" ELSE pc
    /\ UNCHANGED <<cfgVars, mainVars, timeVars, fetched, data, metrics_text, lastLog, registryVars,
                   shared_metrics, firstFetchAt, renders>>

------------------------------------------------------------------------------
(* main.rs: health_handler and root_handler *)

TextLine(t) == Line("text", t, "", 0)

\* "OK"
OkBody == <<TextLine("OK")>>

\* The text root_handler returns, line by line.
IndexBody ==
    <<TextLine("HomeWizard Water Prometheus Exporter"), TextLine(""),
      TextLine("Endpoints:"), TextLine("  /metrics - Prometheus metrics"),
      TextLine("  /health  - Health check")>>

\* health_handler, were it to report the poller's progress.
health_handler_reporting_poller ==
    IF shared_metrics = EmptyText
    THEN Reply("/health", 503, <<TextLine("NOT READY")>>)
    ELSE Reply("/health", 200, OkBody)

\* async fn health_handler() -> &'static str { "OK" }
health_handler == Reply("/health", 200, OkBody)

\* async fn root_handler() -> &'static str { ".." }
root_handler == Reply("/", 200, IndexBody)

\* What a handler that takes no state leaves alone: everything but the
\* client's own record of what it received.
FixedRouteFrame ==
    UNCHANGED <<cfgVars, mainVars, timeVars, pc, fetched, data, metrics_text, lastLog,
                registryVars, shared_metrics, rpc, firstFetchAt, renders>>

\* The client's record after a response that is not a /metrics body: resp
\* and respAge hold the last response only while it is a /metrics body.
Received(r, answer) ==
    /\ reply' = [reply EXCEPT ![r] = answer]
    /\ resp' = [resp EXCEPT ![r] = NoText]
    /\ respAge' = [respAge EXCEPT ![r] = 0]

\* GET /health
HealthHandle(r) ==
    /\ Serving
    /\ r \in clients
    /\ rpc[r] = "idle"
    /\ Received(r, health_handler)
    /\ FixedRouteFrame

\* GET /
RootHandle(r) ==
    /\ Serving
    /\ r \in clients
    /\ rpc[r] = "idle"
    /\ Received(r, root_handler)
    /\ FixedRouteFrame

------------------------------------------------------------------------------
(* Time *)

\* The poll task is suspended: on the timer, on the device, on the lock.
Suspended ==
    \/ pc \in {"first_tick", "tick"} /\ ~TickReady
    \/ pc = "fetch" /\ fetchElapsed < HttpTimeout
    \/ pc = "write_wait"

Advance ==
    /\ Suspended
    /\ lag < MaxLag
    /\ lag' = lag + 1
    /\ fetchElapsed' = IF pc = "fetch" THEN fetchElapsed + 1 ELSE fetchElapsed
    /\ clock' = Min(clock + 1, MaxClock)
    /\ fetchesThisInstant' = 0
    /\ UNCHANGED <<cfgVars, mainVars, pc, fetched, data, metrics_text, lastLog, registryVars,
                   shared_metrics, readerVars, firstFetchAt, renders>>

------------------------------------------------------------------------------

Next ==
    \/ MetricsNewOk
    \/ \E k \in 1..Len(MetricNames) : MetricsNewErr(k)
    \/ ClientNewOk
    \/ ClientNewErr
    \/ SpawnPoller
    \/ BindOk
    \/ BindErr
    \/ IntervalNew
    \/ FirstTick
    \/ LoopTick
    \/ \E r \in DeviceResponses \cup {TimeoutResponse} : FetchReturn(r)
    \/ FetchOk
    \/ FetchErr
    \/ UpdReset
    \/ UpdIncBy
    \/ UpdFlow
    \/ UpdOffset
    \/ UpdWifi
    \/ UpdInfoReset
    \/ UpdInfoSet
    \/ GatherOk
    \/ GatherErr
    \/ WriteRequest
    \/ AssignBegin
    \/ AssignEnd
    \/ WriteRelease
    \/ \E r \in Readers : MetricsRequest(r)
    \/ \E r \in Readers : MetricsRespond(r)
    \/ \E r \in Readers : HealthHandle(r)
    \/ \E r \in Readers : RootHandle(r)
    \/ Advance

Spec == Init /\ [][Next]_vars

\* Two concurrent clients against one configuration and a device that
\* refuses the connection or reports one of two Readings.
ReaderDevice ==
    {r \in DeviceResponses : r.kind = "refused" \/ (fetch_data(r).ok /\ fetch_data(r).data.total_liter_m3 > 0)}

InitReaders == InitWith({1}, {FALSE}, {Readers}, {ReaderDevice})

SpecReaders == InitReaders /\ [][Next]_vars

\* The specification of the claims about fetch_data: one client, one period,
\* and a device that answers in every way DeviceResponses lists.
InitClient == InitWith({1}, {FALSE}, {{1}}, {DeviceResponses})

SpecClient == InitClient /\ [][Next]_vars

------------------------------------------------------------------------------
(* Reading texts *)

Indices(text) == 1..Len(text)

\* The sample lines of one metric, as <<label, value>> pairs in text order.
RECURSIVE SamplesFrom(_, _, _)
SamplesFrom(text, name, i) ==
    IF i > Len(text) THEN <<>>
    ELSE (IF text[i].line = "sample" /\ text[i].name = name
          THEN <<<<text[i].label, text[i].value>>>>
          ELSE <<>>)
         \o SamplesFrom(text, name, i + 1)

SamplesOf(text, name) == SamplesFrom(text, name, 1)

\* The field of a Reading a sample line must carry.
CarriesField(l, d) ==
    \/ l.name = "homewizard_water_total_m3"
         /\ l.label = "" /\ l.value = d.total_liter_m3
    \/ l.name = "homewizard_water_active_flow_lpm"
         /\ l.label = "" /\ l.value = d.active_liter_lpm
    \/ l.name = "homewizard_water_offset_m3"
         /\ l.label = "" /\ l.value = d.total_liter_offset_m3
    \/ l.name = "homewizard_water_wifi_strength_percent"
         /\ l.label = "" /\ l.value = d.wifi_strength
    \/ l.name = "homewizard_water_meter_info"
         /\ l.label = d.wifi_ssid /\ l.value = 1

\* Every sample of the text is a field of one and the same Reading.
FromOneReading(text) ==
    \E d \in Readings :
        \A i \in Indices(text) : text[i].line = "sample" => CarriesField(text[i], d)

\* The text has exactly the five samples of d.
CarriesReading(text, d) ==
    /\ SamplesOf(text, "homewizard_water_total_m3") = <<<<"", d.total_liter_m3>>>>
    /\ SamplesOf(text, "homewizard_water_active_flow_lpm") = <<<<"", d.active_liter_lpm>>>>
    /\ SamplesOf(text, "homewizard_water_offset_m3") = <<<<"", d.total_liter_offset_m3>>>>
    /\ SamplesOf(text, "homewizard_water_wifi_strength_percent") = <<<<"", d.wifi_strength>>>>
    /\ SamplesOf(text, "homewizard_water_meter_info") = <<<<d.wifi_ssid, 1>>>>
    /\ Cardinality({i \in Indices(text) : text[i].line = "sample"}) = 5

\* A handler returns its body in this step.
Responds(r) == rpc[r] = "read_locked" /\ rpc'[r] = "idle"

------------------------------------------------------------------------------
(* C1 *)

\* C1: a tick whose fetch fails leaves the published snapshot exactly as it
\* was: from the tick to the failure no step changes the slot, and a /metrics
\* handler answering meanwhile returns that unchanged slot.
FailedFetchKeepsSnapshot ==
    [][(pc \in {"tick", "fetch", "match"} /\ pc' \in {"tick", "fetch", "match"})
         => /\ shared_metrics' = shared_metrics
            /\ \A r \in Readers : Responds(r) => resp'[r] = shared_metrics]_vars

\* A fetch has failed after a publish, and a client has read the snapshot.
FailedFetchAfterSuccess ==
    /\ pc = "tick"
    /\ lastLog = "warn: fetch failed"
    /\ shared_metrics # EmptyText
    /\ resp[1] = shared_metrics

------------------------------------------------------------------------------
(* C2 *)

\* The body a handler holding the read lock is about to return, and every
\* body a client has received.
VisibleTexts ==
    {HandlerBody(r) : r \in ReadersHolding}
    \cup {resp[r] : r \in {q \in Readers : resp[q] # NoText}}

\* C2 (as stated): the value visible to any reader is exactly the text
\* produced by some completed render.
ReaderSeesCompletedRender == VisibleTexts \subseteq renders

\* C2 (amended): the value visible to any reader is the initial empty string
\* or exactly the text produced by some completed render, never a partly
\* written value.
ReaderSeesInitialOrCompletedRender == VisibleTexts \subseteq renders \cup {EmptyText}

\* A client is held back while the assignment of the slot is under way and
\* the slot is neither the old nor the new text.
ReaderHeldBackDuringWrite ==
    /\ pc = "assigning"
    /\ shared_metrics \notin renders \cup {EmptyText}
    /\ \E r \in Readers : rpc[r] = "read_wait"

------------------------------------------------------------------------------
(* C3 *)

Delivered == {r \in Readers : resp[r] # NoText}

\* The age of the newest snapshot delivered to any client so far.
NewestDeliveredAge ==
    IF Delivered = {} THEN MaxAge
    ELSE CHOOSE a \in {respAge[r] : r \in Delivered} :
             \A r \in Delivered : a <= respAge[r]

\* C3: monotonic visibility: no handler returns a snapshot older than one
\* already delivered to any client.
MonotonicVisibility ==
    [][\A r \in Readers : Responds(r) => respAge'[r] <= NewestDeliveredAge]_vars

\* One client holds a snapshot that has since been replaced and asks again,
\* while another client already holds the newer one.
StaleClientAsksAgain ==
    \E r, q \in Readers :
        /\ rpc[r] = "read_locked"
        /\ resp[r] # NoText /\ respAge[r] >= 1
        /\ resp[q] # NoText /\ respAge[q] = 0
        /\ resp[q] # resp[r]

------------------------------------------------------------------------------
(* C4 *)

\* C4: no reader receives a text mixing fields of two Readings, and no render
\* observes a registry that update has only partly written.
NoMixedReadings ==
    /\ \A t \in VisibleTexts : FromOneReading(t)
    /\ metrics_text # NoText => FromOneReading(metrics_text)

\* A handler holds the read lock while update has written only part of the
\* registry, whose render would mix two Readings.
ReaderDuringPartialUpdate ==
    /\ pc \in {"upd_flow", "upd_offset", "upd_wifi", "upd_info_reset", "upd_info_set"}
    /\ ~FromOneReading(Render(Registry))
    /\ shared_metrics # EmptyText
    /\ ReadersHolding # {}

------------------------------------------------------------------------------
(* C5 *)

TotalSamples(text) == SamplesOf(text, "homewizard_water_total_m3")

\* C5: no accumulation across updates: once update has run, the counter is
\* the total of the Reading just applied, and the text published for it
\* carries that total in its one total-consumption sample, whatever was
\* applied before.
NoAccumulation ==
    /\ pc \in {"gather", "write", "write_wait", "write_locked", "assigning", "assigned"}
         => total_water = data.total_liter_m3
    /\ pc = "assigned" => TotalSamples(shared_metrics) = <<<<"", data.total_liter_m3>>>>

\* R2 (total 2) has been published right after R1 (total 1), whose snapshot
\* the client still holds.
SecondReadingPublished ==
    /\ pc = "assigned"
    /\ data.total_liter_m3 = 2
    /\ resp[1] # NoText /\ respAge[1] = 1
    /\ TotalSamples(resp[1]) = <<<<"", 1>>>>

------------------------------------------------------------------------------
(* C6 *)

InfoSamplesOf(text) == SamplesOf(text, "homewizard_water_meter_info")

\* C6: every text gather returns, and every text published, has exactly one
\* device-info sample, of value 1, labelled with the network identifier
\* applied last.
OneDeviceInfoSample ==
    /\ metrics_text # NoText => InfoSamplesOf(metrics_text) = <<<<data.wifi_ssid, 1>>>>
    /\ pc = "assigned" => InfoSamplesOf(shared_metrics) = <<<<data.wifi_ssid, 1>>>>
    /\ (shared_metrics # EmptyText /\ pc # "assigning")
         => \E id \in Ssids : InfoSamplesOf(shared_metrics) = <<<<id, 1>>>>

\* The network identifier has changed between two publishes.
NetworkChanged ==
    /\ pc = "assigned"
    /\ data.wifi_ssid = "Guest"
    /\ resp[1] # NoText /\ respAge[1] = 1
    /\ InfoSamplesOf(resp[1]) = <<<<"HomeNet", 1>>>>

------------------------------------------------------------------------------
(* C7 *)

\* C7: the text gather returns after update(R) has exactly five samples, one
\* per metric, each carrying the matching field of R.
RenderCarriesAppliedReading ==
    metrics_text # NoText => CarriesReading(metrics_text, data)

\* A Reading with zero values and a negative offset has been applied and
\* rendered.
ZeroAndNegativeRendered ==
    /\ metrics_text # NoText
    /\ data.total_liter_offset_m3 < 0
    /\ data.wifi_strength = 0
    /\ data.active_liter_lpm = 0

------------------------------------------------------------------------------
(* C8 *)

\* C8: the first fetch is issued at time 0 of the poll task.
FirstFetchAtStartup == firstFetchAt \in {-1, 0}

------------------------------------------------------------------------------
(* C9 *)

\* C9: ticks missed during a long fetch are coalesced: at one instant at most
\* one fetch is issued, never one per missed firing.
MissedTicksCoalesced == fetchesThisInstant <= 1

------------------------------------------------------------------------------
(* C10 *)

\* C10: once polling, the poll task never reaches a terminal state.
PollerNeverStops == firstFetchAt # -1 => pc # "panicked"

------------------------------------------------------------------------------
(* C11 *)

\* The positions of an iteration up to the return of gather().
BeforeWrite ==
    {"tick", "fetch", "match", "upd_reset", "upd_inc", "upd_flow", "upd_offset",
     "upd_wifi", "upd_info_reset", "upd_info_set", "gather"}

\* C11: a tick whose update or gather returns an error does not write the
\* slot: no step of an iteration that has not got past gather() changes it,
\* and the step that ends the iteration on the error leaves it as it was.
FailedRenderKeepsSnapshot ==
    [][/\ ((pc \in BeforeWrite /\ pc' \in BeforeWrite)
              => shared_metrics' = shared_metrics)
       /\ ((pc \in {"upd_info_set", "gather"} /\ pc' = "tick")
              => /\ shared_metrics' = shared_metrics
                 /\ lastLog' \in {"error: update failed", "error: gather failed"})]_vars

\* A render has failed after a publish: the registry holds the new Reading,
\* the slot the snapshot of the one before.
FailedRenderAfterSuccess ==
    /\ pc = "tick"
    /\ lastLog = "error: gather failed"
    /\ shared_metrics # EmptyText
    /\ shared_metrics # Render(Registry)

------------------------------------------------------------------------------
(* C12 *)

\* The connection was refused: send() returned a reqwest::Error.
Refused == Response("refused", 0, NoBody)

\* fetch_data has returned for a response with a status outside 2xx.
StatusOutside2xx ==
    /\ pc = "match"
    /\ fetched.resp.kind = "http"
    /\ ~is_success(fetched.resp.status)

\* C12: whenever the device's status is outside 2xx, whatever the body,
\* fetch_data returns the error that carries the status code, and that error
\* is of another kind than the one a refused connection gives.
NonSuccessStatusIsResponseFailure ==
    StatusOutside2xx
        => /\ ~fetched.result.ok
           /\ fetched.result.err = "ParseError"
           /\ fetched.result.status = fetched.resp.status
           /\ fetched.result.err # fetch_data(Refused).err

\* The device has answered 404 with a body that is a complete Reading.
NotFoundWithReadingBody ==
    /\ StatusOutside2xx
    /\ fetched.resp.status = 404
    /\ from_json(fetched.resp.body).ok

------------------------------------------------------------------------------
(* C13 *)

\* The body is a JSON object with every required field.
CompleteObject(body) == body.kind = "object" /\ FieldNames \subseteq DOMAIN body.fields

\* fetch_data has returned for a 2xx response.
Status2xx ==
    /\ pc = "match"
    /\ fetched.resp.kind = "http"
    /\ is_success(fetched.resp.status)

\* C13: on a 2xx response whose body is empty, not JSON or lacks a required
\* field, fetch_data returns the error kind of a failed connection, not the
\* kind of a bad status; and a Reading it returns has every field from the
\* body, none defaulted.
InvalidBodyIsTransportFailure ==
    Status2xx
        => IF CompleteObject(fetched.resp.body)
           THEN /\ fetched.result.ok
                /\ DOMAIN fetched.result.data = FieldNames
                /\ \A f \in FieldNames :
                       fetched.result.data[f] = fetched.resp.body.fields[f]
           ELSE /\ ~fetched.result.ok
                /\ fetched.result.err = fetch_data(Refused).err
                /\ fetched.result.err # "ParseError"

\* The device has answered 200 with an object that lacks three fields.
MissingFieldsAnswered ==
    /\ Status2xx
    /\ fetched.resp.body = PartialObject
    /\ ~fetched.result.ok

------------------------------------------------------------------------------
(* C14 *)

\* C14: a fetch still unanswered when the timeout is reached ends as the
\* error of a failed connection: it produces no Reading, the iteration ends
\* there, and the slot stays as it was.
TimedOutFetchIsTransportFailure ==
    [][/\ (pc = "fetch" /\ pc' = "match" /\ fetchElapsed >= HttpTimeout)
             => /\ ~fetched'.result.ok
                /\ fetched'.result.err = fetch_data(Refused).err
       /\ (pc = "match" /\ pc' # "match" /\ fetchElapsed >= HttpTimeout)
             => /\ pc' \in {"tick", "cancelled"}
                /\ data' = None
                /\ shared_metrics' = shared_metrics]_vars

\* A fetch has timed out after a publish.
TimedOutAfterSuccess ==
    /\ pc = "tick"
    /\ lastLog = "warn: fetch failed"
    /\ fetchElapsed = HttpTimeout
    /\ shared_metrics # EmptyText

------------------------------------------------------------------------------
(* C15 *)

\* C15: a request is sent only by a tick of the interval, every tick sends
\* one, and a failed fetch ends the iteration: nothing is sent again before
\* the next tick.
OneRequestPerTick ==
    [][/\ (pc' = "fetch" /\ pc # "fetch")
             => (pc = "tick" /\ TickReady /\ lag' = LagAfterTick)
       /\ (pc = "tick" /\ pc' \notin {"tick", "cancelled"}) => pc' = "fetch"
       /\ (pc = "match" /\ pc' \notin {"match", "cancelled"} /\ ~fetched.result.ok)
             => pc' = "tick"]_vars

\* A fetch has failed and the poll task waits for the next tick.
WaitingAfterFailedFetch ==
    /\ pc = "tick"
    /\ lastLog = "warn: fetch failed"
    /\ ~TickReady

------------------------------------------------------------------------------
(* C16 *)

\* C16: in every reachable state the answer of /health is 200 with body OK:
\* the handler returns it whatever the poll task is doing, a client that is
\* served and has no request under way can get it at once, and every answer
\* a client got from /health is that one.
HealthAlwaysOk ==
    /\ health_handler = Reply("/health", 200, OkBody)
    /\ \A r \in clients : (Serving /\ rpc[r] = "idle") => ENABLED HealthHandle(r)
    /\ \A r \in Readers :
           reply[r].route = "/health" => (reply[r].status = 200 /\ reply[r].body = OkBody)

\* /health has answered before any publish, after a failed fetch.
HealthyBeforeFirstPublish ==
    /\ reply[1] = health_handler
    /\ shared_metrics = EmptyText
    /\ lastLog = "warn: fetch failed"

------------------------------------------------------------------------------
(* C17 *)

\* A step of a handler of client r.
HandlerStep(r) == reply'[r] # reply[r] \/ (rpc[r] = "idle" /\ rpc'[r] # "idle")

\* C17: no step of a /metrics, /health or / handler changes the slot or the
\* registry, and the slot changes only in the assignment of the poll task,
\* under the write lock.
RoutesReadOnly ==
    [][/\ \A r \in Readers :
              HandlerStep(r) => (shared_metrics' = shared_metrics /\ UNCHANGED registryVars)
       /\ shared_metrics' # shared_metrics
              => (pc \in {"write_locked", "assigning"} /\ pc' \in {"assigning", "assigned"})]_vars

\* One client has been answered by /metrics with the published snapshot, the
\* other by /health.
BothRoutesServedAfterPublish ==
    /\ reply[1].route = "/metrics"
    /\ reply[1].body = shared_metrics
    /\ reply[2].route = "/health"
    /\ shared_metrics \in renders

------------------------------------------------------------------------------
(* C18 *)

\* C18 (as stated): the publish never has to wait for a reader.
PublishNeverWaitsForReader == pc # "write_wait"

\* A /metrics request of client r gets to the lock.
AsksReadLock(r) == rpc[r] = "idle" /\ rpc'[r] \in {"read_wait", "read_locked"}

\* C18 (amended): handlers do not hold each other back: a handler that asks
\* for the slot while the poll task neither writes nor waits gets it however
\* many handlers hold it; the publish waits only for handlers that hold the
\* slot already: it waits only if some handler holds it, no handler is let
\* in while it waits, and it gets the slot when the last of them returns.
ReadersShareAndWriterWaitsForHolders ==
    [][/\ \A r \in Readers :
              (AsksReadLock(r) /\ ~WriterHolds /\ ~WriterWaits) => rpc'[r] = "read_locked"
       /\ (pc = "write" /\ pc' = "write_wait") => ReadersHolding # {}
       /\ pc = "write_wait" => ReadersHolding' \subseteq ReadersHolding
       /\ (pc = "write_wait" /\ ReadersHolding' = {}) => pc' = "write_locked"]_vars

\* Both handlers hold the slot and the publish waits for them.
TwoReadersHoldWhileWriterWaits ==
    /\ ReadersHolding = Readers
    /\ pc = "write_wait"

------------------------------------------------------------------------------
(* C19 *)

\* A request has been routed to a handler.
Served == \E r \in Readers : rpc[r] # "idle" \/ reply[r] # NoReply

\* C19: a request is served only once the listener is bound, with all five
\* metrics registered; a failed registration, client construction or bind
\* ends the process, which has then served nothing.
StartupFailureIsFatal ==
    /\ Served => (main_pc = "serving" /\ registered = MetricNames)
    /\ (registered # MetricNames /\ main_pc # "metrics_new") => main_pc = "exited"
    /\ main_pc = "exited" => (~Served /\ pc \in {"unspawned", "cancelled"})

\* The bind has failed after the poll task had published a snapshot.
BindFailedAfterPublish ==
    /\ main_pc = "exited"
    /\ pc = "cancelled"
    /\ shared_metrics # EmptyText

------------------------------------------------------------------------------
(* C20 *)

\* C20: while no publish has completed, the slot is the empty String, and
\* /metrics answers 200 with an empty body: every answer a client has got
\* from it and the answer a handler holding the slot is about to give.
EmptyBodyBeforeFirstPublish ==
    shared_metrics = EmptyText
        => /\ \A r \in Readers :
                  reply[r].route = "/metrics"
                      => (reply[r].status = 200 /\ reply[r].body = EmptyText)
           /\ \A r \in ReadersHolding :
                  HandlerBody(r) = EmptyText /\ MetricsStatus(HandlerBody(r)) = 200

\* /metrics has answered while no publish had completed and a fetch had
\* failed.
EmptyScrapeAfterFailedFetch ==
    /\ shared_metrics = EmptyText
    /\ lastLog = "warn: fetch failed"
    /\ reply[1] = Reply("/metrics", 200, EmptyText)

------------------------------------------------------------------------------
(* C21 *)

\* C21: a /metrics handler answers with the value the slot holds when it
\* returns, and it returns only while no write is under way: the value of
\* the last completed write, never one that write replaced.
RequestAfterWriteSeesIt ==
    [][\A r \in Readers :
           Responds(r) => /\ ~WriterHolds
                          /\ resp'[r] = shared_metrics
                          /\ reply'[r].body = shared_metrics
                          /\ respAge'[r] = 0]_vars

\* A second text has replaced the first in the slot, and the client has
\* been answered with it.
AnsweredWithReplacingText ==
    /\ pc = "tick"
    /\ Cardinality(renders) >= 2
    /\ shared_metrics \in renders
    /\ reply[1] = Reply("/metrics", 200, shared_metrics)

------------------------------------------------------------------------------
(* C22 *)

\* The positions of the poll loop, by state of the cycle.
Fetching == {"fetch", "match"}
Updating ==
    {"upd_reset", "upd_inc", "upd_flow", "upd_offset", "upd_wifi",
     "upd_info_reset", "upd_info_set"}
Publishing == {"write", "write_wait", "write_locked", "assigning", "assigned"}

\* C22: within an iteration the fetch follows the tick, the update follows
\* a fetch that returned Ok and works on its Reading, gather follows the
\* completed update, and the write follows a gather that returned the text
\* of that Reading; the slot changes only in that write, and once it is
\* written the iteration ends, so a tick writes at most once.
PublishInOrder ==
    [][/\ (pc' \in Fetching /\ pc \notin Fetching) => pc = "tick"
       /\ (pc' \in Updating /\ pc \notin Updating)
              => (pc = "match" /\ fetched.result.ok /\ data' = fetched.result.data)
       /\ (pc' = "gather" /\ pc # "gather") => pc = "upd_info_set"
       /\ (pc' \in Publishing /\ pc \notin Publishing)
              => /\ pc = "gather"
                 /\ metrics_text' = Render(Registry)
                 /\ CarriesReading(metrics_text', data)
       /\ shared_metrics' # shared_metrics
              => /\ pc \in {"write_locked", "assigning"}
                 /\ pc' \in {"assigning", "assigned"}
                 /\ pc' = "assigned" => shared_metrics' = metrics_text
       /\ (pc = "assigned" /\ pc' # pc) => pc' \in {"tick", "cancelled"}
       /\ (pc \in Publishing /\ pc' \notin Publishing)
              => (pc = "assigned" \/ pc' = "cancelled")]_vars

\* The text of this iteration's Reading has just been written.
WrittenThisIteration ==
    /\ pc = "assigned"
    /\ shared_metrics = metrics_text
    /\ CarriesReading(shared_metrics, data)

------------------------------------------------------------------------------
(* C23 *)

\* C23: the deadline of the next tick is one period after the deadline of
\* the tick that fired, however long the iteration takes: a tick moves the
\* deadline by the period, a tick that is due fires before time passes, and
\* apart from the ticks only the passing of time, unit by unit, changes the
\* distance to the deadline. An iteration that ends before the deadline is
\* thus followed by a fetch exactly at it.
FixedRate ==
    [][/\ (pc = "tick" /\ pc' = "fetch") => (lag >= 0 /\ lag' = lag - poll_interval)
       /\ (pc = "tick" /\ pc' = "tick" /\ lag >= 0) => lag' = lag
       /\ lag' # lag
              => \/ pc \in {"interval", "first_tick", "tick"} /\ pc' # pc
                 \/ lag' = lag + 1 /\ pc' = pc]_vars

\* After an iteration that published, the next fetch has started exactly at
\* its deadline, a period of two after the one before.
NextFetchOnePeriodLater ==
    /\ pc = "fetch"
    /\ fetchElapsed = 0
    /\ poll_interval = 2
    /\ lag = 0 - poll_interval
    /\ lastLog = "info: fetched"
    /\ shared_metrics # EmptyText

------------------------------------------------------------------------------
(* C24 *)

\* C24: a tick is taken only while the poll task awaits the interval, and a
\* request is sent only from there, with nothing of the iteration before
\* left: while a fetch is in flight no other is started, and none starts
\* before the update, render and write that followed it are over.
NoStackedFetches ==
    [][/\ lag' < lag => pc \in {"first_tick", "tick"}
       /\ (pc' = "fetch" /\ (pc # "fetch" \/ fetchElapsed' < fetchElapsed))
              => /\ pc = "tick"
                 /\ fetched = None
                 /\ data = None
                 /\ metrics_text = NoText]_vars

\* A tick has come due while a fetch is in flight.
TickDueDuringFetch ==
    /\ pc = "fetch"
    /\ fetchElapsed > 0
    /\ poll_interval > 0
    /\ lag >= 0

------------------------------------------------------------------------------
(* C25 *)

\* The registry holds exactly the Reading d: each metric the value of its
\* field, the GaugeVec one child, labelled with the network, of value 1.
Applied(d) ==
    /\ total_water = d.total_liter_m3
    /\ active_flow = d.active_liter_lpm
    /\ water_offset = d.total_liter_offset_m3
    /\ wifi_strength = d.wifi_strength
    /\ meter_info = {[ssid |-> d.wifi_ssid, value |-> 1]}

\* C25: the registry changes only inside update; an iteration whose fetch
\* fails leaves every metric as it was; and when the poll task leaves update
\* (the process not having exited), the registry holds exactly the Reading
\* fetched, applied once.
MetricSetMutatedOncePerReading ==
    [][/\ Registry' # Registry => pc \in Updating
       /\ (pc \in Fetching /\ pc' = "tick") => UNCHANGED registryVars
       /\ (pc \in Updating /\ pc' \notin Updating \cup {"cancelled"}) => Applied(data)']_vars

------------------------------------------------------------------------------
(* C26 *)

\* C26: while the poll task is anywhere but in the write (awaiting the
\* tick, fetching, updating, rendering), a /metrics handler that asks for
\* the slot gets it at once and none is waiting for it.
HandlersNotBlockedByFetchOrRender ==
    pc \notin {"write_wait", "write_locked", "assigning", "assigned"}
        => /\ ReadGranted
           /\ \A r \in Readers : rpc[r] # "read_wait"

\* A handler holds the slot, with a published snapshot in it, while the
\* fetch has been in flight for the whole timeout.
HandlerServedDuringTimedOutFetch ==
    /\ pc = "fetch"
    /\ fetchElapsed = HttpTimeout
    /\ rpc[1] = "read_locked"
    /\ shared_metrics \in renders

------------------------------------------------------------------------------
(* C27 *)

\* The device of SpecLive: it refuses or reports one Reading.
LiveDevice ==
    {r \in DeviceResponses :
        r.kind = "refused" \/ (fetch_data(r).ok /\ fetch_data(r).data.total_liter_m3 = 1)}

InitLive == InitWith({1}, {FALSE}, {Readers}, {LiveDevice})

\* Fair scheduling: a task that can run does run. The poll task, once it
\* has asked for the write guard, goes on to the assignment and the release
\* whenever it can; a handler that holds the read guard returns.
Fairness ==
    /\ WF_vars(WriteRequest)
    /\ WF_vars(AssignBegin)
    /\ WF_vars(AssignEnd)
    /\ WF_vars(WriteRelease)
    /\ \A r \in Readers : WF_vars(MetricsRespond(r))

SpecLive == InitLive /\ [][Next]_vars /\ Fairness

\* C27: while the listener serves, a poll task that has rendered a text
\* gets the write guard and writes it, however the handlers keep arriving,
\* and every handler that waits for the read guard gets it.
PublishAndReadersProgress ==
    /\ (Serving /\ pc \in {"write", "write_wait"}) ~> (pc = "assigned")
    /\ \A r \in Readers : (rpc[r] = "read_wait") ~> (rpc[r] = "read_locked")

\* The publish waits for a handler that holds the slot, and another handler
\* waits behind the publish.
ReaderQueuedBehindWaitingWriter ==
    /\ pc = "write_wait"
    /\ rpc[1] = "read_locked"
    /\ rpc[2] = "read_wait"

------------------------------------------------------------------------------
(* C28 *)

\* The text of a registry that holds the Reading d and nothing else.
FreshRender(d) ==
    Render([total_water |-> d.total_liter_m3, active_flow |-> d.active_liter_lpm,
            water_offset |-> d.total_liter_offset_m3, wifi_strength |-> d.wifi_strength,
            meter_info |-> {[ssid |-> d.wifi_ssid, value |-> 1]}])

\* C28: the text gather returns, and the text written to the slot, is the
\* one a registry holding only this iteration's Reading gives, whatever was
\* fetched, applied, rendered or failed before; every text ever rendered is
\* such a text of one Reading. Two histories that end with the same Reading
\* therefore publish the same text.
SnapshotDependsOnReadingOnly ==
    /\ metrics_text # NoText => metrics_text = FreshRender(data)
    /\ pc = "assigned" => shared_metrics = FreshRender(data)
    /\ \A t \in renders : \E d \in Readings : t = FreshRender(d)

\* The text of this iteration's Reading has been written over the text of
\* another.
WrittenOverAnotherReading ==
    /\ pc = "assigned"
    /\ Cardinality(renders) >= 2
    /\ shared_metrics = FreshRender(data)

------------------------------------------------------------------------------
(* C29 *)

\* C29: update returns for every Reading it is given: the poll task never
\* stops inside update, with the Reading of the iteration in hand.
UpdateAlwaysReturns == ~(pc = "panicked" /\ data # None)

------------------------------------------------------------------------------
(* C30 *)

\* C30: whatever period the configuration gives, zero included, the poll
\* task does not end while the listener serves.
EveryPeriodKeepsPolling == (Serving /\ poll_interval = 0) => pc # "panicked"

====
